---- MODULE Spec2Model ----
\* Model of lib/src/parser.h: the TSString helper (ts_string_*), the lexer
\* macros (START_LEXER .. END_STATE) and the parse action constructors.
EXTENDS Integers, Sequences, FiniteSets, TLC

VARIABLES
  charSigned,   \* whether plain `char` is a signed type in this build
  s,            \* the TSString under test
  heap,         \* live malloc blocks: block id -> bytes (Indet = never written)
  fault,        \* an operation wrote out of bounds, used a wild pointer or freed a dead block
  ev,           \* allocator calls made by the last operation
  origin,       \* how s was created: "new", "from" or "deleted"
  pushed,       \* codepoints pushed onto s since it was created
  lastOp,       \* name of the last operation
  idx,          \* the caller's index variable handed to ts_string_char
  lastChar,     \* [start, ret, i, top] of the last ts_string_char call, or NoCall
  t,            \* a second TSString, compared with s
  eqRes,        \* the results of the last ts_string_eq calls, or NoEq
  lexer,        \* the TSLexer handed to the scanning routine, with the caller's cursor
  frame,        \* the scanning routine's locals: result, skip, eof, lookahead, state
  pc,           \* "idle" before the routine is called, "scan" inside it, "done" after END_STATE
  ret,          \* the value END_STATE returned
  trace,        \* the macros the routine has executed, in order
  action,       \* the bytes of the TSParseAction a constructor macro initialised
  built,        \* the macro that initialised action, with its arguments
  bigEndian     \* whether this build stores the high byte of a uint16_t first

strVars ==
  <<charSigned, s, heap, fault, ev, origin, pushed, lastOp, idx, lastChar, t, eqRes>>

lexVars == <<lexer, frame, pc, ret, trace>>

actVars == <<action, built, bigEndian>>

vars == <<strVars, lexVars, actVars>>

-----------------------------------------------------------------------------
\* Bounds of the model

\* pushes made onto one string when strings are only built
MaxPush == 5

\* pushes made onto one string when it is also decoded
MaxCharPush == 4

\* macros one run of the scanning routine executes before END_STATE
MaxLexSteps == 5

\* distance between the sampled codepoints of the round-trip specification
SampleStride == 4111

\* codepoints handed to ts_string_push: one per encoded length
PushInputs == {65, 233, 20013, 128512}

\* codepoints of [0, 0x10FFFF] outside the surrogates: the ends of every encoded
\* length, the neighbours of the surrogate range, and a sample of the rest
Codepoints ==
  ({0, 127, 128, 2047, 2048, 55295, 57344, 65535, 65536, 1114111}
     \cup PushInputs
     \cup {k * SampleStride : k \in 0..(1114111 \div SampleStride)})
  \ (55296..57343)

\* values an indeterminate byte may turn out to hold when it is read
JunkBytes == {0, 191}

-----------------------------------------------------------------------------
\* int32_t arithmetic. TLC's integers are the int32_t range itself; \div and %
\* round towards minus infinity, so x % 2 and x \div 2 are the lowest bit and
\* the arithmetic right shift of a two's complement x.

\* x & y
RECURSIVE And(_, _)
And(x, y) ==
  IF x = 0 \/ y = 0 THEN 0
  ELSE IF x = 0 - 1 THEN y
  ELSE IF y = 0 - 1 THEN x
  ELSE (x % 2) * (y % 2) + 2 * And(x \div 2, y \div 2)

\* x | y
RECURSIVE Or(_, _)
Or(x, y) ==
  IF x = 0 THEN y
  ELSE IF y = 0 THEN x
  ELSE IF x = 0 - 1 \/ y = 0 - 1 THEN 0 - 1
  ELSE (IF x % 2 = 1 \/ y % 2 = 1 THEN 1 ELSE 0) + 2 * Or(x \div 2, y \div 2)

\* x << n, for the operands the code shifts (at most 8 bits wide, n <= 18)
Shl(x, n) == x * (2 ^ n)

\* x >> n
Shr(x, n) == x \div (2 ^ n)

\* (char)x, kept as the stored octet 0..255
CharCast(x) == x % 256

\* the int value of a stored octet read through a `char` lvalue
CharValue(b, signed) == IF signed /\ b >= 128 THEN b - 256 ELSE b

\* (uint16_t)x
U16Cast(x) == x % 65536

-----------------------------------------------------------------------------
\* TSString

SMALL_LEN == 12

NULL == 0

WildPtr == 0 - 1

Indet == 256

Fill(n, v) == [k \in 1..n |-> v]

\* the union `content`: writing one member leaves the other indeterminate
TSString(length, small, data, capacity) ==
  [length |-> length, small |-> small, data |-> data, capacity |-> capacity]

ts_string_new == TSString(0, Fill(SMALL_LEN, 0), NULL, 0)

\* least block id that is not live
FreshBlock(h) == CHOOSE b \in 1..(Cardinality(DOMAIN h) + 1) : b \notin DOMAIN h

Malloc(h, b, n) == [x \in DOMAIN h \cup {b} |-> IF x = b THEN Fill(n, Indet) ELSE h[x]]

Free(h, b) == [x \in DOMAIN h \ {b} |-> h[x]]

\* memcpy(dst, src, n) into the front of a byte array
Memcpy(dst, src, n) == [k \in 1..Len(dst) |-> IF k <= n THEN src[k] ELSE dst[k]]


\* where self->content.small lives, as a pointer value
InlinePtr == 0 - 2

\* the bytes a pointer refers to (none for a pointer that is not valid)
Load(self, h, p) ==
  IF p = InlinePtr THEN self.small
  ELSE IF p \in DOMAIN h THEN h[p]
  ELSE << >>

\* mutant of ts_string_from: the heap block is given room to grow
ts_string_from_Roomy(h, content, length) ==
  IF length > SMALL_LEN
    THEN LET b == FreshBlock(h)
         IN [s |-> TSString(length, Fill(SMALL_LEN, Indet), b, length * 2),
             heap |-> [Malloc(h, b, length * 2) EXCEPT ![b] = Memcpy(@, content, length)],
             ev |-> << <<"malloc", length * 2>> >>,
             fault |-> FALSE]
    ELSE [s |-> TSString(length, Memcpy(Fill(SMALL_LEN, Indet), content, length),
                         WildPtr, Indet),
          heap |-> h,
          ev |-> << >>,
          fault |-> FALSE]

\* mutant of ts_string_from: a string of exactly SMALL_LEN bytes goes to the heap
ts_string_from_HeapAtLimit(h, content, length) ==
  IF length >= SMALL_LEN
    THEN LET b == FreshBlock(h)
         IN [s |-> TSString(length, Fill(SMALL_LEN, Indet), b, length),
             heap |-> [Malloc(h, b, length) EXCEPT ![b] = Memcpy(@, content, length)],
             ev |-> << <<"malloc", length>> >>,
             fault |-> FALSE]
    ELSE [s |-> TSString(length, Memcpy(Fill(SMALL_LEN, Indet), content, length),
                         WildPtr, Indet),
          heap |-> h,
          ev |-> << >>,
          fault |-> FALSE]

ts_string_from(h, content, length) ==
  IF length > SMALL_LEN
    THEN LET b == FreshBlock(h)
         IN [s |-> TSString(length, Fill(SMALL_LEN, Indet), b, length),
             heap |-> [Malloc(h, b, length) EXCEPT ![b] = Memcpy(@, content, length)],
             ev |-> << <<"malloc", length>> >>,
             fault |-> FALSE]
    ELSE [s |-> TSString(length, Memcpy(Fill(SMALL_LEN, Indet), content, length),
                         WildPtr, Indet),
          heap |-> h,
          ev |-> << >>,
          fault |-> FALSE]

\* mutant of ts_string_delete: a string of exactly SMALL_LEN bytes is freed
ts_string_delete_FreeAtLimit(self, h) ==
  IF self.length >= SMALL_LEN
    THEN [s |-> ts_string_new,
          heap |-> Free(h, self.data),
          ev |-> << <<"free", self.data>> >>,
          fault |-> self.data \notin DOMAIN h]
    ELSE [s |-> ts_string_new, heap |-> h, ev |-> << >>, fault |-> FALSE]

\* mutant of ts_string_delete: the string is not zeroed after the free
ts_string_delete_NoReset(self, h) ==
  IF self.length > SMALL_LEN
    THEN [s |-> self,
          heap |-> Free(h, self.data),
          ev |-> << <<"free", self.data>> >>,
          fault |-> self.data \notin DOMAIN h]
    ELSE [s |-> self, heap |-> h, ev |-> << >>, fault |-> FALSE]

ts_string_delete(self, h) ==
  IF self.length > SMALL_LEN
    THEN [s |-> ts_string_new,
          heap |-> Free(h, self.data),
          ev |-> << <<"free", self.data>> >>,
          fault |-> self.data \notin DOMAIN h]
    ELSE [s |-> ts_string_new, heap |-> h, ev |-> << >>, fault |-> FALSE]

ts_string_data(self) ==
  IF self.length > SMALL_LEN THEN self.data ELSE InlinePtr

\* memcmp(a, b, n) == 0; an indeterminate byte compares as whatever it holds
Memcmp0(a, b, n) ==
  /\ n <= Len(a)
  /\ n <= Len(b)
  /\ \A k \in 1..n : a[k] = b[k]

\* mutant of ts_string_eq: the inline arrays are compared whatever the length
ts_string_eq_Inline(self, other, h) ==
  IF self.length # other.length THEN FALSE
  ELSE Memcmp0(self.small, other.small, IF self.length > SMALL_LEN THEN SMALL_LEN ELSE self.length)

ts_string_eq(self, other, h) ==
  IF self.length # other.length THEN FALSE
  ELSE IF self.length > SMALL_LEN
    THEN Memcmp0(Load(self, h, self.data), Load(other, h, other.data), self.length)
    ELSE Memcmp0(self.small, other.small, self.length)


\* lines 294-303: the encoded length of c
utf8_len(c) ==
  IF c <= 127 THEN 1
  ELSE IF c <= 2047 THEN 2
  ELSE IF c <= 65535 THEN 3
  ELSE 4

\* mutant of utf8_bytes: the 4-byte path falls through without its second octet
utf8_bytes_NoSecond(c) ==
  IF c <= 127 THEN << CharCast(c) >>
  ELSE
    (IF c <= 2047 THEN << CharCast(Or(Shr(c, 6), 192)) >>
     ELSE
       (IF c <= 65535 THEN << CharCast(Or(Shr(c, 12), 224)) >>
        ELSE << CharCast(Or(Shr(c, 18), 240)) >>)
       \o << CharCast(Or(And(Shr(c, 6), 63), 128)) >>)
    \o << CharCast(Or(And(c, 63), 128)) >>

\* mutant of utf8_bytes: the 4-byte path stores its second octet after the third
utf8_bytes_SecondLate(c) ==
  IF c <= 127 THEN << CharCast(c) >>
  ELSE
    (IF c <= 2047 THEN << CharCast(Or(Shr(c, 6), 192)) >>
     ELSE
       (IF c <= 65535
          THEN << CharCast(Or(Shr(c, 12), 224)),
                  CharCast(Or(And(Shr(c, 6), 63), 128)) >>
          ELSE << CharCast(Or(Shr(c, 18), 240)),
                  CharCast(Or(And(Shr(c, 6), 63), 128)),
                  CharCast(Or(And(Shr(c, 12), 63), 128)) >>))
    \o << CharCast(Or(And(c, 63), 128)) >>

\* lines 325-340: the octets stored by the data[self->length++] = ... statements,
\* in the order the statements run
utf8_bytes(c) ==
  IF c <= 127 THEN << CharCast(c) >>
  ELSE
    (IF c <= 2047 THEN << CharCast(Or(Shr(c, 6), 192)) >>
     ELSE
       (IF c <= 65535 THEN << CharCast(Or(Shr(c, 12), 224)) >>
        ELSE << CharCast(Or(Shr(c, 18), 240)),
                CharCast(Or(And(Shr(c, 12), 63), 128)) >>)
       \o << CharCast(Or(And(Shr(c, 6), 63), 128)) >>)
    \o << CharCast(Or(And(c, 63), 128)) >>

\* mutant of GrownCapacity: the capacity grows by the inline size
GrownCapacity_AddInline(old_capacity) == old_capacity + SMALL_LEN

\* mutant of GrownCapacity: the capacity grows by a fixed step
GrownCapacity_Step(old_capacity) == old_capacity + 2

\* uint32_t capacity = old_capacity * 2
GrownCapacity(old_capacity) == old_capacity * 2

\* data[at], data[at + 1], ... = bytes (at is a 0-based offset); writes past the
\* end of the array are dropped here and reported by StoreFault
Store(arr, at, bytes) ==
  [k \in 1..Len(arr) |->
     IF k > at /\ k <= at + Len(bytes) THEN bytes[k - at] ELSE arr[k]]

StoreFault(arr, at, bytes) == at + Len(bytes) > Len(arr)

\* mutant of UsesRealloc: the test is made against the doubled inline size
UsesRealloc_Doubled(old_capacity) == old_capacity > 2 * SMALL_LEN

\* line 313: a block that is already on the heap is grown with realloc
UsesRealloc(old_capacity) == old_capacity > SMALL_LEN

\* mutant of InlineToHeap: the inline bytes are not copied to the new block
InlineToHeap_NoCopy(old_bytes, length, capacity) == Fill(capacity, Indet)

\* lines 317-319: data = malloc(capacity); memcpy(data, old_data, self->length)
InlineToHeap(old_bytes, length, capacity) ==
  Memcpy(Fill(capacity, Indet), old_bytes, length)

\* line 314: realloc keeps the old block's bytes
Realloc(old_bytes, capacity) ==
  [k \in 1..capacity |-> IF k <= Len(old_bytes) THEN old_bytes[k] ELSE Indet]

\* moved: whether realloc returns a new block (and releases the old one)
ts_string_push(self, h, c, moved) ==
  LET len          == utf8_len(c)
      old_capacity == IF self.length > SMALL_LEN THEN self.capacity ELSE SMALL_LEN
      old_data     == ts_string_data(self)
      grow         == self.length + len > old_capacity
      capacity     == GrownCapacity(old_capacity)
      viaRealloc   == grow /\ UsesRealloc(old_capacity)
      viaMalloc    == grow /\ ~UsesRealloc(old_capacity)
      wild         == (viaRealloc \/ (~grow /\ old_data # InlinePtr))
                        /\ old_data \notin DOMAIN h
      h0           == IF viaRealloc /\ moved /\ ~wild THEN Free(h, old_data) ELSE h
      data         == IF viaMalloc \/ (viaRealloc /\ moved) THEN FreshBlock(h)
                      ELSE old_data
      old_bytes    == Load(self, h, old_data)
      target       == IF viaRealloc THEN Realloc(old_bytes, capacity)
                      ELSE IF viaMalloc THEN InlineToHeap(old_bytes, self.length, capacity)
                      ELSE old_bytes
      bytes        == utf8_bytes(c)
      written      == Store(target, self.length, bytes)
      length       == self.length + Len(bytes)
  IN [s |-> IF data = InlinePtr
              THEN TSString(length, written, WildPtr, Indet)
            ELSE IF grow
              THEN TSString(length, Fill(SMALL_LEN, Indet), data, capacity)
            ELSE [self EXCEPT !.length = length],
      heap |-> IF data = InlinePtr \/ wild THEN h0
               ELSE [x \in DOMAIN h0 \cup {data} |-> IF x = data THEN written ELSE h0[x]],
      ev |-> IF viaRealloc THEN << <<"realloc", capacity>> >>
             ELSE IF viaMalloc THEN << <<"malloc", capacity>> >>
             ELSE << >>,
      fault |-> wild \/ StoreFault(target, self.length, bytes)]

\* data[k] as read by ts_string_char (k a 0-based offset): a byte that was never
\* written, or lies outside the storage, reads as junk
ReadByte(arr, k, junk) ==
  IF k < Len(arr) /\ arr[k + 1] # Indet THEN arr[k + 1] ELSE junk

\* the result of ts_string_char(self, &i): the value returned, the index stored
\* in i, and the highest byte offset read (-1 when nothing was read)
ts_string_char(self, h, i, junk, signed) ==
  LET data  == Load(self, h, ts_string_data(self))
      D(k)  == CharValue(ReadByte(data, k, junk), signed)
      ix    == i + 1
      c     == D(i)
  IN IF i >= self.length THEN [ret |-> 0 - 1, i |-> i, top |-> 0 - 1]
     ELSE IF And(c, 128) = 0 THEN [ret |-> c, i |-> ix, top |-> i]
     ELSE IF c < 224
       THEN [ret |-> Or(Shl(And(c, 31), 6), And(D(ix), 63)),
             i   |-> ix + 1,
             top |-> ix]
     ELSE IF c < 240
       THEN [ret |-> U16Cast(Or(Or(Shl(c, 12), Shl(And(D(ix), 63), 6)),
                                And(D(ix + 1), 63))),
             i   |-> ix + 2,
             top |-> ix + 1]
     ELSE [ret |-> Or(Or(Or(Shl(And(c, 7), 18), Shl(And(D(ix), 63), 12)),
                         Shl(And(D(ix + 1), 63), 6)),
                      And(D(ix + 2), 63)),
           i   |-> ix + 3,
           top |-> ix + 2]

-----------------------------------------------------------------------------
\* Lexer macros

ts_builtin_sym_end == 0

ts_builtin_sym_error == 65535

\* The lexer context: lookahead and result_symbol are the TSLexer fields; input,
\* pos, token_start and token_end are the caller's cursor behind the advance and
\* mark_end callbacks; calls logs every callback the routine makes.
LexerAt(input, pos) == IF pos < Len(input) THEN input[pos + 1] ELSE 0

NewLexer(input, sym) ==
  [lookahead |-> LexerAt(input, 0), result_symbol |-> sym, input |-> input,
   pos |-> 0, token_start |-> 0, token_end |-> 0, calls |-> << >>]

\* lexer->advance(lexer, skip): consumes the current lookahead unit (nothing at
\* the end of the input); a skipped unit moves the token's start past it
LexerAdvance(lx, skip) ==
  LET consumed == lx.pos < Len(lx.input)
      pos      == IF consumed THEN lx.pos + 1 ELSE lx.pos
  IN [lx EXCEPT !.pos = pos,
                !.lookahead = LexerAt(lx.input, pos),
                !.token_start = IF skip THEN pos ELSE @,
                !.calls = Append(@, [op |-> "advance", skip |-> skip, at |-> lx.pos,
                                     consumed |-> consumed])]

\* lexer->mark_end(lexer): the current position becomes the candidate token's end
LexerMarkEnd(lx) ==
  [lx EXCEPT !.token_end = lx.pos,
             !.calls = Append(@, [op |-> "mark_end", skip |-> FALSE, at |-> lx.pos,
                                  consumed |-> FALSE])]

\* lines 140-146 and 149-151: the locals, then `goto start`
START_LEXER(lx, state) ==
  [result |-> FALSE, skip |-> FALSE, eof |-> FALSE, lookahead |-> lx.lookahead,
   state |-> state]

\* mutant of next_state: result is initialised under the `start` label
next_state_ResetResult(f, lx) ==
  LET after == LexerAdvance(lx, f.skip)
  IN [frame |-> [f EXCEPT !.result = FALSE, !.skip = FALSE,
                          !.lookahead = after.lookahead],
      lexer |-> after]

\* mutant of next_state: the skip flag is not cleared at `start`
next_state_KeepSkip(f, lx) ==
  LET after == LexerAdvance(lx, f.skip)
  IN [frame |-> [f EXCEPT !.lookahead = after.lookahead], lexer |-> after]

\* mutant of next_state: lookahead is read once, when the routine is entered
next_state_StaleLookahead(f, lx) ==
  LET after == LexerAdvance(lx, f.skip)
  IN [frame |-> [f EXCEPT !.skip = FALSE], lexer |-> after]

\* lines 147-151: next_state: lexer->advance(lexer, skip); start: skip = false;
\* lookahead = lexer->lookahead
next_state(f, lx) ==
  LET after == LexerAdvance(lx, f.skip)
  IN [frame |-> [f EXCEPT !.skip = FALSE, !.lookahead = after.lookahead],
      lexer |-> after]

ADVANCE(f, lx, state_value) == next_state([f EXCEPT !.state = state_value], lx)

SKIP(f, lx, state_value) ==
  next_state([f EXCEPT !.skip = TRUE, !.state = state_value], lx)

\* mutant of ACCEPT_TOKEN: the first accepted token is final
ACCEPT_TOKEN_FirstWins(f, lx, symbol_value) ==
  IF f.result THEN [frame |-> f, lexer |-> lx]
  ELSE [frame |-> [f EXCEPT !.result = TRUE],
        lexer |-> LexerMarkEnd([lx EXCEPT !.result_symbol = symbol_value])]

ACCEPT_TOKEN(f, lx, symbol_value) ==
  [frame |-> [f EXCEPT !.result = TRUE],
   lexer |-> LexerMarkEnd([lx EXCEPT !.result_symbol = symbol_value])]

END_STATE(f) == f.result

\* inputs of the scanning routine
LexInputs == { << >>, << 97, 98 >>, << 32, 97, 98 >>, << 32, 32, 97 >> }

LexStates == {0, 1}

LexSymbols == {1, 2}

NoFrame == [result |-> FALSE, skip |-> FALSE, eof |-> FALSE, lookahead |-> 0, state |-> 0]

\* the routine is entered: START_LEXER()
LexStart ==
  /\ pc = "idle"
  /\ \E state \in LexStates : frame' = START_LEXER(lexer, state)
  /\ pc' = "scan"
  /\ UNCHANGED <<lexer, ret, trace, strVars, actVars>>

Running == pc = "scan" /\ Len(trace) < MaxLexSteps

LexAdvance ==
  /\ Running
  /\ \E state_value \in LexStates :
       LET r == ADVANCE(frame, lexer, state_value)
       IN /\ frame' = r.frame
          /\ lexer' = r.lexer
          /\ trace' = Append(trace, [macro |-> "ADVANCE", arg |-> state_value,
                                     at |-> lexer.pos])
  /\ UNCHANGED <<pc, ret, strVars, actVars>>

LexSkip ==
  /\ Running
  /\ \E state_value \in LexStates :
       LET r == SKIP(frame, lexer, state_value)
       IN /\ frame' = r.frame
          /\ lexer' = r.lexer
          /\ trace' = Append(trace, [macro |-> "SKIP", arg |-> state_value,
                                     at |-> lexer.pos])
  /\ UNCHANGED <<pc, ret, strVars, actVars>>

LexAccept ==
  /\ Running
  /\ \E symbol_value \in LexSymbols :
       LET r == ACCEPT_TOKEN(frame, lexer, symbol_value)
       IN /\ frame' = r.frame
          /\ lexer' = r.lexer
          /\ trace' = Append(trace, [macro |-> "ACCEPT_TOKEN", arg |-> symbol_value,
                                     at |-> lexer.pos])
  /\ UNCHANGED <<pc, ret, strVars, actVars>>

LexEnd ==
  /\ pc = "scan"
  /\ ret' = END_STATE(frame)
  /\ pc' = "done"
  /\ UNCHANGED <<lexer, frame, trace, strVars, actVars>>

-----------------------------------------------------------------------------
\* Parse actions

\* lines 54-59: the enumerators of TSParseActionType
TSParseActionTypeShift == 0

TSParseActionTypeReduce == 1

TSParseActionTypeAccept == 2

TSParseActionTypeRecover == 3

\* sizeof(TSParseAction): its largest member, reduce, is 1 + 1 + 2 + 2 + 2 bytes
ActionSize == 8

\* the storage of a TSParseAction before an initialiser has run
NoAction == [k \in 1..ActionSize |-> Indet]

\* a uint8_t or bool member stored at byte offset off
Put8(a, off, v) == [a EXCEPT ![off + 1] = v % 256]

\* a uint16_t or int16_t member stored at byte offset off
Put16(a, off, v, be) ==
  LET lo == v % 256
      hi == (v \div 256) % 256
  IN [a EXCEPT ![off + 1] = IF be THEN hi ELSE lo,
               ![off + 2] = IF be THEN lo ELSE hi]

Get8(a, off) == a[off + 1]

Get16(a, off, be) ==
  IF a[off + 1] = Indet \/ a[off + 2] = Indet THEN Indet
  ELSE IF be THEN a[off + 1] * 256 + a[off + 2]
  ELSE a[off + 2] * 256 + a[off + 1]

\* the value a designated initialiser list gives a member: that of the last
\* designator naming it, and zero when none names it
Designated(inits, name) ==
  LET ks == {k \in 1..Len(inits) : inits[k][1] = name}
  IN IF ks = {} THEN 0
     ELSE inits[CHOOSE k \in ks : \A j \in ks : j <= k][2]

\* lines 62-67: `.shift = { ... }`: type at 0, state at 2, extra at 4, repetition
\* at 5; the padding byte and the bytes past the member are not written
InitShift(inits, be) ==
  Put8(Put8(Put16(Put8(NoAction, 0, Designated(inits, "type")),
                  2, Designated(inits, "state"), be),
            4, Designated(inits, "extra")),
       5, Designated(inits, "repetition"))

\* lines 68-74: `.reduce = { ... }`: type at 0, child_count at 1, symbol at 2,
\* dynamic_precedence at 4, production_id at 6
InitReduce(inits, be) ==
  Put16(Put16(Put16(Put8(Put8(NoAction, 0, Designated(inits, "type")),
                         1, Designated(inits, "child_count")),
                    2, Designated(inits, "symbol"), be),
              4, Designated(inits, "dynamic_precedence"), be),
        6, Designated(inits, "production_id"), be)

\* line 75: `.type = ...`: one byte at 0
InitType(type) == Put8(NoAction, 0, type)

\* action.type
ReadType(a) == Get8(a, 0)

\* the members of action.shift
ReadShift(a, be) ==
  [type |-> Get8(a, 0), state |-> Get16(a, 2, be), extra |-> Get8(a, 4),
   repetition |-> Get8(a, 5)]

\* the members of action.reduce; dynamic_precedence is an int16_t
ReadReduce(a, be) ==
  LET p == Get16(a, 4, be)
  IN [type |-> Get8(a, 0), child_count |-> Get8(a, 1), symbol |-> Get16(a, 2, be),
      dynamic_precedence |-> IF p = Indet \/ p < 32768 THEN p ELSE p - 65536,
      production_id |-> Get16(a, 6, be)]

SHIFT(state_value, be) ==
  InitShift(<< <<"type", TSParseActionTypeShift>>, <<"state", state_value>> >>, be)

\* mutant of SHIFT_REPEAT: the flag set is extra
SHIFT_REPEAT_AsExtra(state_value, be) ==
  InitShift(<< <<"type", TSParseActionTypeShift>>, <<"state", state_value>>,
               <<"extra", 1>> >>, be)

SHIFT_REPEAT(state_value, be) ==
  InitShift(<< <<"type", TSParseActionTypeShift>>, <<"state", state_value>>,
               <<"repetition", 1>> >>, be)

SHIFT_EXTRA(be) ==
  InitShift(<< <<"type", TSParseActionTypeShift>>, <<"extra", 1>> >>, be)

\* rest: the designators passed as __VA_ARGS__
REDUCE(symbol_val, child_count_val, rest, be) ==
  InitReduce(<< <<"type", TSParseActionTypeReduce>>, <<"symbol", symbol_val>>,
                <<"child_count", child_count_val>> >> \o rest, be)

RECOVER == InitType(TSParseActionTypeRecover)

ACCEPT_INPUT == InitType(TSParseActionTypeAccept)

\* arguments of the constructor macros
ActionStates == {0, 1, 2, 255, 258, 65535}

ActionSymbols == {1, 258, 65534}

ChildCounts == {0, 1, 255}

ReduceRests ==
  { << >>,
    << <<"dynamic_precedence", 0 - 1>> >>,
    << <<"dynamic_precedence", 2>> >>,
    << <<"production_id", 3>> >>,
    << <<"dynamic_precedence", 0 - 258>>, <<"production_id", 258>> >> }

Made(macro, state, symbol, child_count, rest) ==
  [macro |-> macro, state |-> state, symbol |-> symbol,
   child_count |-> child_count, rest |-> rest]

NotMade == Made("none", 0, 0, 0, << >>)

\* one entry of a parse table is initialised by a constructor macro
Construct(a, made) ==
  /\ action' = a
  /\ built' = made
  /\ UNCHANGED <<bigEndian, strVars, lexVars>>

MakeShift ==
  \E state_value \in ActionStates :
    Construct(SHIFT(state_value, bigEndian), Made("SHIFT", state_value, 0, 0, << >>))

MakeShiftRepeat ==
  \E state_value \in ActionStates :
    Construct(SHIFT_REPEAT(state_value, bigEndian),
              Made("SHIFT_REPEAT", state_value, 0, 0, << >>))

MakeShiftExtra ==
  Construct(SHIFT_EXTRA(bigEndian), Made("SHIFT_EXTRA", 0, 0, 0, << >>))

MakeReduce ==
  \E symbol_val \in ActionSymbols, child_count_val \in ChildCounts,
     rest \in ReduceRests :
    Construct(REDUCE(symbol_val, child_count_val, rest, bigEndian),
              Made("REDUCE", 0, symbol_val, child_count_val, rest))

MakeRecover == Construct(RECOVER, Made("RECOVER", 0, 0, 0, << >>))

MakeAcceptInput == Construct(ACCEPT_INPUT, Made("ACCEPT_INPUT", 0, 0, 0, << >>))

-----------------------------------------------------------------------------
\* The string operations as steps of a caller that owns one TSString

NoEq == [st |-> FALSE, ts |-> FALSE, ss |-> FALSE, tt |-> FALSE]

NoCall == [start |-> 0 - 1, ret |-> 0 - 1, i |-> 0 - 1, top |-> 0 - 1]

\* byte arrays handed to ts_string_from
FromInputs ==
  { << >>,
    << 65 >>,
    utf8_bytes(128512) \o utf8_bytes(128512) \o utf8_bytes(128512),
    << 65 >> \o utf8_bytes(128512) \o utf8_bytes(128512) \o utf8_bytes(128512) }

Apply(r, op, org) ==
  /\ s' = r.s
  /\ heap' = r.heap
  /\ ev' = r.ev
  /\ fault' = (fault \/ r.fault)
  /\ origin' = org
  /\ lastOp' = op
  /\ idx' = 0
  /\ lastChar' = NoCall
  /\ eqRes' = NoEq
  /\ UNCHANGED <<charSigned, t, lexVars, actVars>>

Unset == lastOp \in {"init", "delete"}

New ==
  /\ Unset
  /\ Apply([s |-> ts_string_new, heap |-> heap, ev |-> << >>, fault |-> FALSE],
           "new", "new")
  /\ pushed' = << >>

From ==
  /\ Unset
  /\ \E content \in FromInputs :
       Apply(ts_string_from(heap, content, Len(content)), "from", "from")
  /\ pushed' = << >>

\* a deleted string is zeroed, so it can be pushed onto like a new one
PushUpTo(n, inputs) ==
  /\ lastOp # "init"
  /\ Len(pushed) < n
  /\ \E c \in inputs, moved \in BOOLEAN :
       /\ Apply(ts_string_push(s, heap, c, moved), "push", origin)
       /\ pushed' = Append(pushed, c)

Push == PushUpTo(MaxPush, PushInputs)

Delete ==
  /\ lastOp # "init"
  /\ Apply(ts_string_delete(s, heap), "delete", "deleted")
  /\ pushed' = << >>

Char ==
  /\ ~Unset
  /\ \E i \in {0, idx}, junk \in JunkBytes :
       LET r == ts_string_char(s, heap, i, junk, charSigned)
       IN /\ lastChar' = [start |-> i, ret |-> r.ret, i |-> r.i, top |-> r.top]
          /\ idx' = r.i
  /\ lastOp' = "char"
  /\ ev' = << >>
  /\ UNCHANGED <<charSigned, s, heap, fault, origin, pushed, t, eqRes, lexVars,
                 actVars>>

\* ts_string_eq called both ways round and on each string with itself
Eq ==
  /\ ~Unset
  /\ eqRes' = [st |-> ts_string_eq(s, t, heap), ts |-> ts_string_eq(t, s, heap),
               ss |-> ts_string_eq(s, s, heap), tt |-> ts_string_eq(t, t, heap)]
  /\ lastOp' = "eq"
  /\ ev' = << >>
  /\ UNCHANGED <<charSigned, s, heap, fault, origin, pushed, idx, lastChar, t,
                 lexVars, actVars>>

\* the second string has been made by ts_string_from(content, Len(content))
InitString(contents) ==
  /\ charSigned \in BOOLEAN
  /\ s = ts_string_new
  /\ \E content \in contents :
       LET r == ts_string_from(<< >>, content, Len(content))
       IN t = r.s /\ heap = r.heap
  /\ fault = FALSE
  /\ ev = << >>
  /\ origin = "none"
  /\ pushed = << >>
  /\ lastOp = "init"
  /\ idx = 0
  /\ lastChar = NoCall
  /\ eqRes = NoEq

InitLexer(inputs, symbols) ==
  /\ lexer \in {NewLexer(input, sym) : input \in inputs, sym \in symbols}
  /\ frame = NoFrame
  /\ pc = "idle"
  /\ ret = FALSE
  /\ trace = << >>

\* no parse action has been built
InitAction(ends) ==
  /\ action = NoAction
  /\ built = NotMade
  /\ bigEndian \in ends

Init ==
  /\ InitString({<< >>})
  /\ InitLexer({<< >>}, {ts_builtin_sym_end})
  /\ InitAction({FALSE})

Next == New \/ From \/ Push \/ Delete

\* building strings
Spec == Init /\ [][Next]_vars

PushShort == PushUpTo(MaxCharPush, PushInputs)

NextChar == New \/ From \/ PushShort \/ Delete \/ Char

\* building strings and decoding them
SpecChar == Init /\ [][NextChar]_vars

PushOne == PushUpTo(1, Codepoints)

NextRoundTrip == New \/ PushOne \/ Delete \/ Char

\* one codepoint pushed onto a fresh string and decoded
SpecRoundTrip == Init /\ [][NextRoundTrip]_vars

InitEq ==
  /\ InitString(FromInputs)
  /\ InitLexer({<< >>}, {ts_builtin_sym_end})
  /\ InitAction({FALSE})

NextEq == New \/ From \/ PushShort \/ Delete \/ Eq

\* a string built and compared with a second one
SpecEq == InitEq /\ [][NextEq]_vars

InitLex ==
  /\ InitString({<< >>})
  /\ InitLexer(LexInputs, {ts_builtin_sym_end, ts_builtin_sym_error})
  /\ InitAction({FALSE})

NextLex == LexStart \/ LexAdvance \/ LexSkip \/ LexAccept \/ LexEnd

\* one run of a scanning routine built from the lexer macros
SpecLex == InitLex /\ [][NextLex]_vars

InitActions ==
  /\ InitString({<< >>})
  /\ InitLexer({<< >>}, {ts_builtin_sym_end})
  /\ InitAction(BOOLEAN)

NextActions ==
  \/ MakeShift
  \/ MakeShiftRepeat
  \/ MakeShiftExtra
  \/ MakeReduce
  \/ MakeRecover
  \/ MakeAcceptInput

\* entries of a parse table built by the constructor macros
SpecActions == InitActions /\ [][NextActions]_vars

-----------------------------------------------------------------------------
\* Properties of the string buffer

\* the encoded length the contract gives a codepoint
EncodedLength(c) ==
  IF c <= 127 THEN 1 ELSE IF c <= 2047 THEN 2 ELSE IF c <= 65535 THEN 3 ELSE 4

RECURSIVE SumEncoded(_)
SumEncoded(cs) ==
  IF cs = << >> THEN 0 ELSE EncodedLength(Head(cs)) + SumEncoded(Tail(cs))

\* the bytes of s that ts_string_data exposes
Data(self, h) == Load(self, h, ts_string_data(self))

IsByte(b) == b \in 0..255

Mallocs(events) == {k \in 1..Len(events) : events[k][1] = "malloc"}

\* C1: pushing one codepoint c (not a surrogate) onto a fresh string and calling
\* ts_string_char with index 0 returns c and stores c's encoded length (1..4)
\* in the index.
C1_RoundTrip ==
  (origin = "new" /\ Len(pushed) = 1 /\ lastOp = "char" /\ lastChar.start = 0)
    => /\ lastChar.ret = pushed[1]
       /\ lastChar.i = EncodedLength(pushed[1])
       /\ idx = EncodedLength(pushed[1])

\* C5: a string built from ts_string_new() by pushes has length equal to the sum
\* of the encoded lengths (1, 2, 3 or 4) of the pushed codepoints.
C5_LengthIsSum ==
  origin = "new" => s.length = SumEncoded(pushed)

C5_Witness ==
  /\ origin = "new"
  /\ lastOp = "push"
  /\ pushed = << 65, 233, 20013, 128512 >>
  /\ s.length = 10

\* byte offset of the k-th pushed codepoint (k = Len(cs) + 1: the length)
Offset(cs, k) == SumEncoded(SubSeq(cs, 1, k - 1))

\* C6: iterating ts_string_char from index 0 over a string built by pushes (inline
\* or on the heap) returns the pushed codepoints in order, each call leaving the
\* index at the next codepoint's first byte, and the call at index = length
\* returns -1.
C6_IterateDecodes ==
  (origin = "new" /\ lastOp = "char") =>
    \A k \in 1..(Len(pushed) + 1) :
      lastChar.start = Offset(pushed, k) =>
        IF k <= Len(pushed)
          THEN lastChar.ret = pushed[k] /\ lastChar.i = Offset(pushed, k + 1)
          ELSE lastChar.ret = 0 - 1

\* C7: pushes onto a fresh string allocate nothing and keep the bytes in the
\* inline array while the length stays <= SMALL_LEN; the first push that takes
\* the length past SMALL_LEN makes exactly one malloc, and the bytes below the
\* old length read through ts_string_data are the same after it as before.
C7_InlineThenOneMalloc ==
  [][(lastOp' = "push" /\ origin' = "new") =>
       /\ s'.length <= SMALL_LEN =>
            /\ ev' = << >>
            /\ DOMAIN heap' = {}
            /\ ts_string_data(s') = InlinePtr
            /\ \A k \in 1..s'.length : IsByte(s'.small[k])
            /\ \A k \in 1..s.length : s'.small[k] = s.small[k]
       /\ (s.length <= SMALL_LEN /\ s'.length > SMALL_LEN) =>
            /\ Len(ev') = 1
            /\ ev'[1][1] = "malloc"
            /\ DOMAIN heap' = {ts_string_data(s')}
            /\ \A k \in 1..s.length :
                 /\ IsByte(Data(s, heap)[k])
                 /\ Data(s', heap')[k] = Data(s, heap)[k]]_vars

C7_Witness ==
  /\ origin = "new"
  /\ lastOp = "push"
  /\ Len(pushed) >= 4
  /\ s.length > SMALL_LEN
  /\ Mallocs(ev) # {}

\* C8: after any sequence of new / from / push the length never exceeds the
\* readable storage (the 12 inline bytes, or the heap block of content.large.capacity
\* bytes), no push writes outside it, and every byte below length has been written.
C8_LengthWithinStorage ==
  /\ ~fault
  /\ IF s.length > SMALL_LEN
       THEN /\ s.data \in DOMAIN heap
            /\ s.capacity = Len(heap[s.data])
            /\ s.length <= s.capacity
       ELSE s.length <= Len(s.small)
  /\ \A k \in 1..s.length : IsByte(Data(s, heap)[k])

C8_Witness ==
  /\ origin = "from"
  /\ lastOp = "push"
  /\ pushed = << 128512 >>
  /\ s.length = 17
  /\ s.capacity = 26

\* C9: a push onto a string whose length exceeds SMALL_LEN leaves it heap-backed;
\* the only push that mallocs is the one that takes the length past SMALL_LEN.
C9_NeverBackInline ==
  [][lastOp' = "push" =>
       /\ s.length > SMALL_LEN =>
            /\ s'.length > SMALL_LEN
            /\ ts_string_data(s') \in DOMAIN heap'
            /\ Mallocs(ev') = {}
       /\ Mallocs(ev') # {} <=> (s.length <= SMALL_LEN /\ s'.length > SMALL_LEN)]_vars

C9_Witness ==
  /\ origin = "new"
  /\ lastOp = "push"
  /\ Len(pushed) = 5
  /\ s.length > SMALL_LEN + 4
  /\ ev = << >>

\* the first length bytes of a string
Bytes(self, h) == [k \in 1..self.length |-> Data(self, h)[k]]

\* C10: ts_string_eq is reflexive and symmetric, and it is true exactly when the
\* two strings have the same length and the same bytes below it, whether they
\* are inline or on the heap and whatever their capacities.
C10_EqIsContentEquality ==
  lastOp = "eq" =>
    /\ eqRes.st = (Bytes(s, heap) = Bytes(t, heap))
    /\ eqRes.ts = eqRes.st
    /\ eqRes.ss
    /\ eqRes.tt

C10_WitnessHeapEqual ==
  /\ lastOp = "eq"
  /\ origin = "new"
  /\ s.length > SMALL_LEN
  /\ s.capacity # t.capacity
  /\ eqRes.st

Frees(events) == {k \in 1..Len(events) : events[k][1] = "free"}

\* C11 as stated: ts_string_delete frees the block exactly when the string is on
\* the heap, and on an inline string (length <= 12) it is a no-op that frees nothing
\* and leaves the length and the bytes as they were.
C11_DeleteInlineNoOp ==
  [][lastOp' = "delete" =>
       /\ Frees(ev') # {} <=> s.length > SMALL_LEN
       /\ s.length <= SMALL_LEN =>
            /\ ev' = << >>
            /\ heap' = heap
            /\ s'.length = s.length
            /\ \A k \in 1..s.length : s'.small[k] = s.small[k]]_vars

\* C11 as amended: ts_string_delete frees the block exactly when the string is on
\* the heap and frees nothing for an inline string; in both cases it zeroes the
\* string, so the length becomes 0.
C11_DeleteFreesHeapOnly ==
  [][lastOp' = "delete" =>
       /\ Frees(ev') # {} <=> s.length > SMALL_LEN
       /\ s.length > SMALL_LEN =>
            /\ ev' = << <<"free", s.data>> >>
            /\ s.data \in DOMAIN heap
            /\ DOMAIN heap' = DOMAIN heap \ {s.data}
       /\ s.length <= SMALL_LEN =>
            /\ ev' = << >>
            /\ heap' = heap
       /\ s'.length = 0
       /\ s'.small = Fill(SMALL_LEN, 0)]_vars

C11_Witness ==
  /\ lastOp = "delete"
  /\ Frees(ev) # {}
  /\ DOMAIN heap = {}
  /\ s.length = 0

\* C12: ts_string_from(bytes, n) gives a string of length n whose first n bytes
\* are the input; for n <= 12 it is inline and nothing is allocated, for n > 12
\* one block of exactly n bytes is allocated and the capacity is n.  (The inputs
\* have distinct lengths, so the length identifies the input that was passed.)
C12_FromCopies ==
  [][lastOp' = "from" =>
       \E content \in FromInputs :
         /\ s'.length = Len(content)
         /\ Bytes(s', heap') = content
         /\ IF Len(content) <= SMALL_LEN
              THEN /\ ev' = << >>
                   /\ heap' = heap
                   /\ ts_string_data(s') = InlinePtr
              ELSE /\ ev' = << <<"malloc", Len(content)>> >>
                   /\ s'.data \notin DOMAIN heap
                   /\ DOMAIN heap' = DOMAIN heap \cup {s'.data}
                   /\ Len(heap'[s'.data]) = Len(content)
                   /\ s'.capacity = Len(content)]_vars

C12_Witness ==
  /\ lastOp = "from"
  /\ s.length = SMALL_LEN + 1
  /\ s.capacity = SMALL_LEN + 1
  /\ Len(heap[s.data]) = SMALL_LEN + 1

\* the capacity of a string: the inline size, or content.large.capacity
Capacity(self) == IF self.length > SMALL_LEN THEN self.capacity ELSE SMALL_LEN

\* C14: a push changes the capacity only when length + encoded length exceeds
\* it, and then to exactly twice the old capacity (malloc of 24 on leaving the
\* inline array, realloc to twice the size on the heap); a push that fits leaves
\* the capacity and the storage block as they were.
C14_CapacityDoubles ==
  [][lastOp' = "push" =>
       LET c == pushed'[Len(pushed')]
       IN IF s.length + EncodedLength(c) > Capacity(s)
            THEN /\ Capacity(s') = 2 * Capacity(s)
                 /\ ev' = << <<IF s.length > SMALL_LEN THEN "realloc" ELSE "malloc",
                               2 * Capacity(s)>> >>
                 /\ Len(Data(s', heap')) = 2 * Capacity(s)
            ELSE /\ Capacity(s') = Capacity(s)
                 /\ ev' = << >>
                 /\ ts_string_data(s') = ts_string_data(s)
                 /\ DOMAIN heap' = DOMAIN heap]_vars

C14_Witness ==
  /\ lastOp = "push"
  /\ origin = "from"
  /\ ev = << <<"realloc", 52>> >>
  /\ s.capacity = 52

\* C18: after any sequence of new / from / push the string owns a live heap block
\* exactly when length > 12 (the test the code uses to pick the storage), it owns
\* no other block, and a delete at any point leaves no block behind and frees
\* nothing that is not a live block.
C18_OwnsBlockIffLong ==
  /\ ~fault
  /\ s.length > SMALL_LEN <=> s.data \in DOMAIN heap
  /\ DOMAIN heap = IF s.length > SMALL_LEN THEN {s.data} ELSE {}
  /\ lastOp = "delete" => (DOMAIN heap = {} /\ Len(ev) <= 1)

C18_Witness ==
  /\ lastOp = "push"
  /\ Len(ev) = 1
  /\ ev[1][1] = "realloc"
  /\ s.data = 2
  /\ DOMAIN heap = {2}

\* the string that pushing cs onto ts_string_new() gives
RECURSIVE Build(_)
Build(cs) ==
  IF cs = << >>
    THEN [s |-> ts_string_new, heap |-> << >>, ev |-> << >>, fault |-> FALSE]
    ELSE LET p == Build(SubSeq(cs, 1, Len(cs) - 1))
         IN ts_string_push(p.s, p.heap, cs[Len(cs)], FALSE)

\* C19: ts_string_delete leaves the string as ts_string_new() makes it (length 0,
\* inline), a second delete frees nothing, and pushes onto a deleted string give
\* what the same pushes onto a fresh string give.
C19_DeleteResets ==
  [][/\ lastOp' = "delete" =>
          /\ s' = ts_string_new
          /\ ts_string_data(s') = InlinePtr
     /\ (lastOp = "delete" /\ lastOp' = "delete") =>
          /\ ev' = << >>
          /\ heap' = heap
          /\ ~fault'
     /\ (lastOp' = "push" /\ origin' = "deleted") =>
          \A fresh \in {Build(pushed')} :
             /\ s'.length = fresh.s.length
             /\ Bytes(s', heap') = Bytes(fresh.s, fresh.heap)
             /\ Capacity(s') = Capacity(fresh.s)
             /\ ev' = fresh.ev]_vars

C19_Witness ==
  /\ origin = "deleted"
  /\ lastOp = "push"
  /\ s.length > SMALL_LEN
  /\ Mallocs(ev) # {}

\* C13: ts_string_char returns -1 exactly when the index passed in is at or past
\* length, and then leaves the index as it was; called at the first byte of a
\* pushed codepoint it returns a decoded value and stores the offset of the byte
\* right after that codepoint.
C13_CharSentinelAndOffset ==
  lastOp = "char" =>
    /\ (lastChar.ret = 0 - 1) <=> (lastChar.start >= s.length)
    /\ lastChar.start >= s.length => (lastChar.i = lastChar.start /\ idx = lastChar.start)
    /\ origin = "new" =>
         \A k \in 1..Len(pushed) :
           lastChar.start = Offset(pushed, k) =>
             /\ lastChar.ret >= 0
             /\ lastChar.i = Offset(pushed, k + 1)

\* C20: iterating ts_string_char from index 0 over a string built by pushes onto
\* a fresh string, no call reads a byte at an offset >= length and no call
\* stores an index greater than length.
C20_IterationInBounds ==
  (origin = "new" /\ lastOp = "char") =>
    /\ lastChar.top < s.length
    /\ lastChar.i <= s.length
    /\ idx <= s.length

\* the UTF-8 encoding of c as RFC 3629 lays it out: the lead octet with the top
\* bits of c, then each continuation octet with the next six bits down
StandardUtf8(c) ==
  IF c <= 127 THEN << c >>
  ELSE IF c <= 2047 THEN << 192 + (c \div 64), 128 + (c % 64) >>
  ELSE IF c <= 65535
    THEN << 224 + (c \div 4096), 128 + ((c \div 64) % 64), 128 + (c % 64) >>
  ELSE << 240 + (c \div 262144), 128 + ((c \div 4096) % 64),
          128 + ((c \div 64) % 64), 128 + (c % 64) >>

\* C16: ts_string_push appends the octets of the codepoint in standard UTF-8
\* order, lead octet first and continuation octets in descending significance
\* (four octets for 0xFFFF < c <= 0x10FFFF), after the bytes already there.
C16_StandardByteOrder ==
  [][lastOp' = "push" =>
       LET c == pushed'[Len(pushed')]
       IN /\ s'.length = s.length + Len(StandardUtf8(c))
          /\ SubSeq(Bytes(s', heap'), s.length + 1, s'.length) = StandardUtf8(c)
          /\ c > 65535 => s'.length = s.length + 4]_vars

C16_Witness ==
  /\ lastOp = "push"
  /\ pushed = << 128512 >>
  /\ Bytes(s, heap) = << 240, 159, 152, 128 >>

-----------------------------------------------------------------------------
\* Properties of the lexer macros

Accepts == {k \in 1..Len(trace) : trace[k].macro = "ACCEPT_TOKEN"}

Moves == {k \in 1..Len(trace) : trace[k].macro \in {"ADVANCE", "SKIP"}}

LastOf(S) == CHOOSE k \in S : \A j \in S : j <= k

CallsOf(op) == {k \in 1..Len(lexer.calls) : lexer.calls[k].op = op}

\* units consumed by the callbacks before the k-th macro of the run
ConsumedBefore(k) ==
  Cardinality({j \in 1..(k - 1) : trace[j].macro \in {"ADVANCE", "SKIP"}
                                   /\ trace[j].at < Len(lexer.input)})

\* C2: when a run executes ACCEPT_TOKEN(A) and later ACCEPT_TOKEN(B), at return
\* result_symbol is B, every accept has called mark_end once, and the end that
\* stands is the one marked by the last accept, after all the units consumed
\* before it; the first accept did not end the scan.
C2_LastAcceptWins ==
  (pc = "done" /\ Cardinality(Accepts) >= 2) =>
    LET last == LastOf(Accepts)
    IN /\ lexer.result_symbol = trace[last].arg
       /\ Cardinality(CallsOf("mark_end")) = Cardinality(Accepts)
       /\ lexer.calls[LastOf(CallsOf("mark_end"))].at = ConsumedBefore(last)
       /\ lexer.token_end = ConsumedBefore(last)
       /\ Len(lexer.calls) = Len(trace)
       /\ ret = TRUE

C2_Witness ==
  /\ pc = "done"
  /\ Len(trace) = 4
  /\ trace[1].macro = "ACCEPT_TOKEN" /\ trace[1].arg = 1
  /\ trace[2].macro = "ADVANCE"
  /\ trace[3].macro = "ADVANCE"
  /\ trace[4].macro = "ACCEPT_TOKEN" /\ trace[4].arg = 2
  /\ lexer.token_end = 2
  /\ lexer.result_symbol = 2

\* C3: the value END_STATE returns is true exactly when the run executed
\* ACCEPT_TOKEN at least once; result starts false and ADVANCE and SKIP leave it
\* alone.
C3_ResultIffAccepted ==
  /\ pc = "scan" => (frame.result <=> Accepts # {})
  /\ pc = "done" => (ret <=> Accepts # {})

C3_WitnessAccepted ==
  /\ pc = "done"
  /\ ret = TRUE
  /\ Accepts = {1}
  /\ Cardinality(Moves) >= 2

\* C4: every advance call made for a SKIP carries skip = true, every one made for
\* an ADVANCE carries skip = false (the flag of a SKIP does not reach a later
\* ADVANCE), and no unit consumed by a SKIP lies in the token's span.
C4_SkipFlag ==
  pc \in {"scan", "done"} =>
    /\ Cardinality(CallsOf("advance")) = Cardinality(Moves)
    /\ \A k \in Moves :
         LET call == lexer.calls[k]
         IN /\ call.op = "advance"
            /\ call.skip = (trace[k].macro = "SKIP")
            /\ call.at = ConsumedBefore(k)
            /\ (call.skip /\ call.consumed) =>
                 ~(lexer.token_start <= call.at /\ call.at < lexer.token_end)
    /\ frame.skip = FALSE

C4_Witness ==
  /\ pc = "done"
  /\ Len(trace) = 4
  /\ trace[1].macro = "SKIP"
  /\ trace[2].macro = "SKIP"
  /\ trace[3].macro = "ADVANCE"
  /\ trace[4].macro = "ACCEPT_TOKEN"
  /\ lexer.input = << 32, 32, 97 >>
  /\ lexer.token_start = 2
  /\ lexer.token_end = 3


\* units the advance callback has consumed in the calls logged in cs
Consumed(cs) == Cardinality({k \in 1..Len(cs) : cs[k].op = "advance" /\ cs[k].consumed})

\* C15: each ADVANCE or SKIP makes exactly one call, to advance, moves the
\* automaton to the state given and re-reads lexer->lookahead, so the next
\* transition sees the unit that follows all units consumed so far; each
\* ACCEPT_TOKEN makes exactly one call, to mark_end, and leaves the automaton
\* state, the lookahead and the input position as they were.
C15_AdvanceRereadsLookahead ==
  [][Len(trace') = Len(trace) + 1 =>
       LET macro == trace'[Len(trace')]
           made  == SubSeq(lexer'.calls, Len(lexer.calls) + 1, Len(lexer'.calls))
       IN /\ SubSeq(lexer'.calls, 1, Len(lexer.calls)) = lexer.calls
          /\ Len(made) = 1
          /\ macro.macro \in {"ADVANCE", "SKIP"} =>
               /\ made[1].op = "advance"
               /\ frame'.state = macro.arg
               /\ frame'.lookahead = lexer'.lookahead
               /\ frame'.lookahead = LexerAt(lexer'.input, Consumed(lexer'.calls))
          /\ macro.macro = "ACCEPT_TOKEN" =>
               /\ made[1].op = "mark_end"
               /\ frame'.state = frame.state
               /\ frame'.lookahead = frame.lookahead
               /\ lexer'.lookahead = lexer.lookahead
               /\ lexer'.pos = lexer.pos]_vars

C15_Witness ==
  /\ pc = "scan"
  /\ lexer.input = << 32, 97, 98 >>
  /\ Len(trace) = 3
  /\ trace[1].macro = "SKIP"
  /\ trace[2].macro = "ADVANCE" /\ trace[2].arg = 1
  /\ trace[3].macro = "ACCEPT_TOKEN"
  /\ frame.state = 1
  /\ frame.lookahead = 98
  /\ Len(lexer.calls) = 3


-----------------------------------------------------------------------------
\* Properties of the parse actions

\* C17: an action built by a constructor macro reads the same type through
\* action.type, action.shift.type and action.reduce.type, and that type is the
\* one kind of the macro: SHIFT(s) is Shift with state s and both flags false,
\* SHIFT_REPEAT(s) is Shift with state s, repetition true and extra false,
\* SHIFT_EXTRA() is Shift with extra true, repetition false and state 0,
\* REDUCE(sym, n, ...) is Reduce with that symbol and child count and the
\* precedence and production id given (0 when not given), RECOVER() is Recover
\* and ACCEPT_INPUT() is Accept.
C17_OneKindPerAction ==
  built.macro # "none" =>
    LET type   == ReadType(action)
        shift  == ReadShift(action, bigEndian)
        reduce == ReadReduce(action, bigEndian)
        Shift(state, extra, repetition) ==
          /\ type = TSParseActionTypeShift
          /\ shift.state = state
          /\ shift.extra = extra
          /\ shift.repetition = repetition
    IN /\ shift.type = type
       /\ reduce.type = type
       /\ type \in {TSParseActionTypeShift, TSParseActionTypeReduce,
                    TSParseActionTypeAccept, TSParseActionTypeRecover}
       /\ built.macro = "SHIFT" => Shift(built.state, 0, 0)
       /\ built.macro = "SHIFT_REPEAT" => Shift(built.state, 0, 1)
       /\ built.macro = "SHIFT_EXTRA" => Shift(0, 1, 0)
       /\ built.macro = "REDUCE" =>
            /\ type = TSParseActionTypeReduce
            /\ reduce.symbol = built.symbol
            /\ reduce.child_count = built.child_count
            /\ reduce.dynamic_precedence = Designated(built.rest, "dynamic_precedence")
            /\ reduce.production_id = Designated(built.rest, "production_id")
       /\ built.macro = "RECOVER" => type = TSParseActionTypeRecover
       /\ built.macro = "ACCEPT_INPUT" => type = TSParseActionTypeAccept

C17_Witness ==
  /\ built.macro = "SHIFT_REPEAT"
  /\ built.state = 258
  /\ bigEndian
  /\ ReadType(action) = TSParseActionTypeShift
  /\ ReadShift(action, bigEndian).state = 258
  /\ ReadShift(action, bigEndian).repetition = 1

====
